---- MODULE Spec2Model ----
(***************************************************************************)
(* SendgridNotificationAdapter: the translation of a notification into one *)
(* outbound SendGrid request.  One adapter instance, its late-bound        *)
(* backend, and its send invocations.  Every action is one synchronous     *)
(* segment of the async send (the code between two awaits); the            *)
(* collaborators (template renderer, backend, attachment files, the        *)
(* SendGrid client) answer nondeterministically.  Under Spec the sends are *)
(* awaited one after the other; the reads of one send's attachments        *)
(* complete in any order.                                                  *)
(***************************************************************************)
EXTENDS Integers, Sequences, FiniteSets, TLC

\* ------------------------------------------------------------------ bounds

\* Number of invocation slots of the adapter (sends that may overlap).
MaxCalls == 2
\* Longest attachments array of a notification.
MaxAttachments == 2

\* ------------------------------------------------------------- value space

\* JavaScript's undefined / null: an absent value.
Null == "<null>"

\* !v of JavaScript, for a string-or-absent value.
Falsy(v) == v \in {Null, ""}

Calls == 1..MaxCalls

Ids == {"123", "456"}
UserId == "user-789"
Addresses == {"", "c@z.com"}
UserEmails == {"b@y.com"}
Contexts == {"ctxA", "ctxB"}

\* What the template renderer may resolve to.
Templates ==
    { [subject |-> "S1", body |-> "<p>B1</p>"],
      [subject |-> "S2", body |-> "<p>B2</p>"] }
NoTemplate == [subject |-> Null, body |-> Null]

\* Errors the collaborators raise.
RenderError == "Template not found"
LookupError == "Backend lookup failed"
MailError == "SendGrid API error"
ReadError(file) == "Read failed: " \o file

\* The bytes behind each attachment file handle: one full group of three
\* bytes and a tail of one, and a tail of two.
FileBytes(file) ==
    IF file = "file-1" THEN <<77, 97, 110, 255>> ELSE <<77, 97>>

\* StoredAttachment: filename, contentType and the file handle.
StoredAttachments ==
    { [filename |-> "document.pdf", contentType |-> "application/pdf", file |-> "file-1"],
      [filename |-> "image.png", contentType |-> "image/png", file |-> "file-2"] }

\* The attachment lists of the notifications sent: up to MaxAttachments
\* attachments, two neighbours being different files.
AttachmentLists ==
    { atts \in UNION { [1..n -> StoredAttachments] : n \in 0..MaxAttachments } :
        \A i \in 1..(Len(atts) - 1) : atts[i] # atts[i + 1] }

\* A notification is account-bound (userId) or one-off (emailOrPhone); the
\* attachments field is optional.
BaseNotifications ==
    { [id |-> i, userId |-> UserId] : i \in Ids \cup {Null} }
    \cup { [id |-> i, emailOrPhone |-> a] : i \in Ids \cup {Null}, a \in Addresses }

WithAttachments(n, atts) ==
    [f \in DOMAIN n \cup {"attachments"} |->
        IF f = "attachments" THEN atts ELSE n[f]]

Notifications ==
    BaseNotifications
    \cup { WithAttachments(n, atts) : n \in BaseNotifications, atts \in AttachmentLists }

IsOneOff(n) == "emailOrPhone" \in DOMAIN n

\* Mutation: only the presence of the array is tested (an empty array is truthy).
HasAttachmentsTruthy(n) == "attachments" \in DOMAIN n

\* notification.attachments && notification.attachments.length > 0
HasAttachments(n) ==
    /\ "attachments" \in DOMAIN n
    /\ Len(n.attachments) > 0

AttachmentsOf(n) == IF "attachments" \in DOMAIN n THEN n.attachments ELSE <<>>

\* ------------------------------------------------------------------ base64

Base64Alphabet ==
    << "A","B","C","D","E","F","G","H","I","J","K","L","M","N","O","P",
       "Q","R","S","T","U","V","W","X","Y","Z","a","b","c","d","e","f",
       "g","h","i","j","k","l","m","n","o","p","q","r","s","t","u","v",
       "w","x","y","z","0","1","2","3","4","5","6","7","8","9","+","/" >>

Base64Char(sextet) == Base64Alphabet[sextet + 1]

RECURSIVE toStringBase64(_)
\* Buffer.toString('base64'): three bytes become four characters; a tail of
\* one or two bytes is padded with '='.
toStringBase64(bytes) ==
    IF Len(bytes) = 0 THEN <<>>
    ELSE IF Len(bytes) = 1 THEN
        << Base64Char(bytes[1] \div 4),
           Base64Char((bytes[1] % 4) * 16),
           "=", "=" >>
    ELSE IF Len(bytes) = 2 THEN
        << Base64Char(bytes[1] \div 4),
           Base64Char((bytes[1] % 4) * 16 + bytes[2] \div 16),
           Base64Char((bytes[2] % 16) * 4),
           "=" >>
    ELSE
        << Base64Char(bytes[1] \div 4),
           Base64Char((bytes[1] % 4) * 16 + bytes[2] \div 16),
           Base64Char((bytes[2] % 16) * 4 + bytes[3] \div 64),
           Base64Char(bytes[3] % 64) >>
        \o toStringBase64(SubSeq(bytes, 4, Len(bytes)))


\* ------------------------------------------------------------------- state

\* SendgridConfig values the adapter may be constructed with.
Configs ==
    { [apiKey |-> "SG.test-api-key", fromEmail |-> "a@x.com", fromName |-> fn] :
        fn \in {Null, "App"} }

VARIABLES
    createArgs,      \* what the factory's create was called with
    adapter,         \* the adapter's public fields: key, notificationType, enqueueNotifications
    config,          \* this.config, set by the constructor
    apiKey,          \* the key of the sgMail client, the module's one instance
    backend,         \* this.backend, Null until injectBackend
    pc,              \* pc[c]: where send invocation c is suspended
    notification,    \* notification[c]: the argument of invocation c
    context,         \* context[c]: the argument of invocation c
    template,        \* template[c]: the local of send
    recipientEmail,  \* recipientEmail[c]: the local of send
    mailData,        \* mailData[c]: the local of send
    readState,       \* readState[c][i]: the promise of attachment i's read
    values,          \* values[c][i]: the slots Promise.all fills
    outcome,         \* outcome[c]: Null, Resolved, or the error send rejected with
    renderCalls,     \* renderCalls[c]: templateRenderer.render calls of c
    lookupCalls,     \* lookupCalls[c]: backend.getUserEmailFromNotification calls of c
    lookupReplies,   \* lookupReplies[c]: what the backend resolved those calls with
    prepareCalls,    \* prepareCalls[c]: prepareAttachments calls of c
    readCalls,       \* readCalls[c]: file.read calls of c, in call order
    completionOrder, \* completionOrder[c]: the attachment indexes, as their reads settled
    sendCalls,       \* sendCalls[c]: sgMail.send calls of c
    sendKeys,        \* sendKeys[c][k]: the key call k of sendCalls[c] was made with
    events,          \* events[c]: every collaborator operation of c, called and settled, in order
    rejectedForBackend  \* a send has been rejected with 'Backend not injected'

vars ==
    << createArgs, adapter, config, apiKey, sendKeys, backend, pc, notification, context,
       template, recipientEmail, mailData, readState, values, outcome,
       renderCalls, lookupCalls, lookupReplies, prepareCalls, readCalls,
       completionOrder, sendCalls, events, rejectedForBackend >>

\* What no send and no injectBackend touches.
construction == << createArgs, adapter, config >>

Resolved == "<resolved>"
NoNotification == [id |-> Null]
NoMailData == [to |-> Null]
Hole == [filename |-> Null, content |-> <<>>, type |-> Null, disposition |-> Null]

\* One entry of events: operation op was called, or it resolved or rejected
\* (index: the attachment, 0 when the operation is not a read).
Ev(op, ev, index) == [op |-> op, ev |-> ev, index |-> index]

\* get supportsAttachments()
supportsAttachments == TRUE

\* Mutation: the constructor passes a constant to super instead of its argument.
ConstructorEnqueueFalse(enqueueNotifications) ==
    [ key |-> "sendgrid",
      notificationType |-> "EMAIL",
      enqueueNotifications |-> FALSE ]

\* The fields after new SendgridNotificationAdapter(renderer, enqueueNotifications, config).
Constructor(enqueueNotifications) ==
    [ key |-> "sendgrid",
      notificationType |-> "EMAIL",
      enqueueNotifications |-> enqueueNotifications ]

\* sgMail.setApiKey(key): the key the client holds from now on.
setApiKey(key) == key

Init ==
    /\ createArgs \in [enqueueNotifications : BOOLEAN, config : Configs]
    /\ adapter = Constructor(createArgs.enqueueNotifications)
    /\ config = createArgs.config
    /\ apiKey = setApiKey(createArgs.config.apiKey)
    /\ backend = Null
    /\ pc = [c \in Calls |-> "idle"]
    /\ notification = [c \in Calls |-> NoNotification]
    /\ context = [c \in Calls |-> Null]
    /\ template = [c \in Calls |-> NoTemplate]
    /\ recipientEmail = [c \in Calls |-> Null]
    /\ mailData = [c \in Calls |-> NoMailData]
    /\ readState = [c \in Calls |-> <<>>]
    /\ values = [c \in Calls |-> <<>>]
    /\ outcome = [c \in Calls |-> Null]
    /\ renderCalls = [c \in Calls |-> <<>>]
    /\ lookupCalls = [c \in Calls |-> <<>>]
    /\ lookupReplies = [c \in Calls |-> <<>>]
    /\ prepareCalls = [c \in Calls |-> <<>>]
    /\ readCalls = [c \in Calls |-> <<>>]
    /\ completionOrder = [c \in Calls |-> <<>>]
    /\ sendCalls = [c \in Calls |-> <<>>]
    /\ sendKeys = [c \in Calls |-> <<>>]
    /\ events = [c \in Calls |-> <<>>]
    /\ rejectedForBackend = FALSE

\* ------------------------------------------------------- pieces of the code

\* Mutation: the backend check never fires.
BackendCheckSkipped(b) == FALSE

\* if (!this.backend)
BackendMissing(b) == b = Null

\* if (!notification.id)
IdMissing(n) == Falsy(n.id)

\* Mutation: the sender pair is built with its two fields swapped.
MailDataSwappedSender(cfg, tpl, recipient) ==
    [ to      |-> recipient,
      from    |-> IF ~Falsy(cfg.fromName)
                  THEN [email |-> cfg.fromName, name |-> cfg.fromEmail]
                  ELSE cfg.fromEmail,
      subject |-> tpl.subject,
      html    |-> tpl.body ]

\* Mutation: the rendered body is sent as the plain-text part.
MailDataAsText(cfg, tpl, recipient) ==
    [ to      |-> recipient,
      from    |-> IF ~Falsy(cfg.fromName)
                  THEN [email |-> cfg.fromEmail, name |-> cfg.fromName]
                  ELSE cfg.fromEmail,
      subject |-> tpl.subject,
      text    |-> tpl.body ]

\* Mutation: the request is addressed to the configured sender.
MailDataToSender(cfg, tpl, recipient) ==
    [ to      |-> cfg.fromEmail,
      from    |-> IF ~Falsy(cfg.fromName)
                  THEN [email |-> cfg.fromEmail, name |-> cfg.fromName]
                  ELSE cfg.fromEmail,
      subject |-> tpl.subject,
      html    |-> tpl.body ]

\* The mailData literal: to, from (pair or bare string), subject, html.
MailData(cfg, tpl, recipient) ==
    [ to      |-> recipient,
      from    |-> IF ~Falsy(cfg.fromName)
                  THEN [email |-> cfg.fromEmail, name |-> cfg.fromName]
                  ELSE cfg.fromEmail,
      subject |-> tpl.subject,
      html    |-> tpl.body ]

\* mailData.attachments = ...
SetAttachments(md, atts) ==
    [f \in DOMAIN md \cup {"attachments"} |->
        IF f = "attachments" THEN atts ELSE md[f]]

\* Mutation: the content is encoded without the '=' padding (base64url-like).
AttachmentDataUnpadded(att, content) ==
    [ filename    |-> att.filename,
      content     |-> SelectSeq(toStringBase64(content), LAMBDA ch : ch # "="),
      type        |-> att.contentType,
      disposition |-> "attachment" ]

\* The descriptor the mapper of prepareAttachments returns for one attachment.
AttachmentData(att, content) ==
    [ filename    |-> att.filename,
      content     |-> toStringBase64(content),
      type        |-> att.contentType,
      disposition |-> "attachment" ]

\* Mutation: the values are collected in the order the reads complete.
StoreInCompletionOrder(vals, states, i, v) ==
    [vals EXCEPT
        ![Cardinality({j \in DOMAIN states : states[j] = "fulfilled"}) + 1] = v]

\* Promise.all keeps the value of promise i in slot i.
PromiseAllStore(vals, states, i, v) == [vals EXCEPT ![i] = v]

\* The recipient resolver of the base adapter: the lookups it issues ...
getRecipientEmailLookups(n) ==
    IF IsOneOff(n) THEN <<>> ELSE <<n.id>>

\* ... and what it settles with, given the backend's answer.
getRecipientEmail(n, answer) ==
    IF IsOneOff(n)
    THEN [ok |-> TRUE, value |-> n.emailOrPhone]
    ELSE IF answer = Null
         THEN [ok |-> FALSE,
               value |-> "User email not found for notification " \o n.id]
         ELSE [ok |-> TRUE, value |-> answer]

\* Mutation: send validates the resolved address and rejects an empty one.
RejectEmptyRecipient(r) ==
    IF r.ok /\ Falsy(r.value)
    THEN [ok |-> FALSE, value |-> "Recipient address is required"]
    ELSE r

\* Mutation: the await is missing, send goes on with the promise itself.
NotAwaited(r) == [ok |-> TRUE, value |-> "[object Promise]"]

\* const recipientEmail = await this.getRecipientEmail(notification): send
\* continues with the resolved value, a rejection rejects send.
AwaitRecipient(r) == r

\* ----------------------------------------------------------------- actions

\* send rejects with error (or resolves, error = Resolved): the invocation is over.
Settle(c, error) ==
    /\ pc' = [pc EXCEPT ![c] = "returned"]
    /\ outcome' = [outcome EXCEPT ![c] = error]

\* Mutation: the request is handed to sgMail.send twice.
IssueSendTwice(c, md) ==
    /\ sendCalls' = [sendCalls EXCEPT ![c] = Append(Append(@, md), md)]
    /\ sendKeys' = [sendKeys EXCEPT ![c] = Append(Append(@, apiKey), apiKey)]
    /\ pc' = [pc EXCEPT ![c] = "mail"]

\* await sgMail.send(md): the outbound call is issued, authenticated with the
\* key the sgMail client holds at that moment.
IssueSend(c, md) ==
    /\ sendCalls' = [sendCalls EXCEPT ![c] = Append(@, md)]
    /\ sendKeys' = [sendKeys EXCEPT ![c] = Append(@, apiKey)]
    /\ pc' = [pc EXCEPT ![c] = "mail"]

\* The events of invocation c grow by evs.
Log(c, evs) == events' = [events EXCEPT ![c] = @ \o evs]

SendCalled == << Ev("sgMail.send", "call", 0) >>

\* Mutation: the template is kept in a field of the adapter, which the
\* latest render of any invocation overwrites.
SharedTemplate(c) ==
    LET others == { d \in Calls : d # c /\ template[d] # NoTemplate }
    IN  IF others = {} THEN template[c]
        ELSE template[CHOOSE d \in others : \A e \in others : d >= e]

\* const template: a local of the invocation.
TemplateOf(c) == template[c]

\* Promise.all resolves when every promise is fulfilled.
PromiseAllFulfilled(states) == \A j \in DOMAIN states : states[j] = "fulfilled"

\* Mutation: the reads are awaited one by one, only the first is started.
FirstReadOnly(atts) ==
    [i \in 1..(IF Len(atts) > 0 THEN 1 ELSE 0) |-> Ev("file.read", "call", i)]

\* attachments.map(async (att) => ... att.file.read()): every mapper runs up to
\* its await, so every read is called before prepareAttachments suspends.
ReadsStarted(atts) == [i \in 1..Len(atts) |-> Ev("file.read", "call", i)]

injectBackend ==
    /\ backend' = "backend"
    /\ UNCHANGED << construction, apiKey, pc, notification, context, template,
                    recipientEmail, mailData, readState, values, outcome,
                    renderCalls, lookupCalls, lookupReplies, prepareCalls,
                    readCalls, completionOrder, sendCalls, sendKeys, events,
                    rejectedForBackend >>

\* send is called in slot c (a fresh invocation: the locals and the call logs
\* of the slot's previous invocation are gone, reads it left outstanding are
\* no longer followed): the backend check, then templateRenderer.render is
\* invoked.
SendStart(c, n, ctx) ==
    /\ pc[c] \in {"idle", "returned"}
    /\ notification' = [notification EXCEPT ![c] = n]
    /\ context' = [context EXCEPT ![c] = ctx]
    /\ template' = [template EXCEPT ![c] = NoTemplate]
    /\ recipientEmail' = [recipientEmail EXCEPT ![c] = Null]
    /\ mailData' = [mailData EXCEPT ![c] = NoMailData]
    /\ readState' = [readState EXCEPT ![c] = <<>>]
    /\ values' = [values EXCEPT ![c] = <<>>]
    /\ lookupCalls' = [lookupCalls EXCEPT ![c] = <<>>]
    /\ lookupReplies' = [lookupReplies EXCEPT ![c] = <<>>]
    /\ prepareCalls' = [prepareCalls EXCEPT ![c] = <<>>]
    /\ readCalls' = [readCalls EXCEPT ![c] = <<>>]
    /\ completionOrder' = [completionOrder EXCEPT ![c] = <<>>]
    /\ sendCalls' = [sendCalls EXCEPT ![c] = <<>>]
    /\ sendKeys' = [sendKeys EXCEPT ![c] = <<>>]
    /\ IF BackendMissing(backend)
       THEN /\ Settle(c, "Backend not injected")
            /\ renderCalls' = [renderCalls EXCEPT ![c] = <<>>]
            /\ events' = [events EXCEPT ![c] = <<>>]
            /\ rejectedForBackend' = TRUE
       ELSE /\ renderCalls' = [renderCalls EXCEPT
                                  ![c] = <<[notification |-> n, context |-> ctx]>>]
            /\ events' = [events EXCEPT ![c] = << Ev("templateRenderer.render", "call", 0) >>]
            /\ pc' = [pc EXCEPT ![c] = "render"]
            /\ outcome' = [outcome EXCEPT ![c] = Null]
            /\ UNCHANGED rejectedForBackend
    /\ UNCHANGED << construction, apiKey, backend >>

\* render resolved: the id check, then getRecipientEmail is invoked.
RenderResolve(c, tpl) ==
    /\ pc[c] = "render"
    /\ template' = [template EXCEPT ![c] = tpl]
    /\ IF IdMissing(notification[c])
       THEN /\ Settle(c, "Notification ID is required")
            /\ Log(c, << Ev("templateRenderer.render", "resolve", 0) >>)
            /\ UNCHANGED lookupCalls
       ELSE /\ lookupCalls' = [lookupCalls EXCEPT
                                  ![c] = @ \o getRecipientEmailLookups(notification[c])]
            /\ Log(c, << Ev("templateRenderer.render", "resolve", 0) >>
                      \o [k \in DOMAIN getRecipientEmailLookups(notification[c]) |->
                             Ev("backend.getUserEmailFromNotification", "call", 0)])
            /\ pc' = [pc EXCEPT ![c] = "recipient"]
            /\ UNCHANGED outcome
    /\ UNCHANGED << construction, apiKey, backend, notification, context, recipientEmail,
                    mailData, readState, values, renderCalls, lookupReplies,
                    prepareCalls, readCalls, completionOrder, sendCalls, sendKeys,
                    rejectedForBackend >>

\* render rejected: the error propagates out of send.
RenderReject(c) ==
    /\ pc[c] = "render"
    /\ Settle(c, RenderError)
    /\ Log(c, << Ev("templateRenderer.render", "reject", 0) >>)
    /\ UNCHANGED << construction, apiKey, backend, notification, context, template,
                    recipientEmail, mailData, readState, values, renderCalls,
                    lookupCalls, lookupReplies, prepareCalls, readCalls,
                    completionOrder, sendCalls, sendKeys, rejectedForBackend >>

\* getRecipientEmail settled (for an account-bound notification the backend
\* answered): mailData is built; with attachments prepareAttachments starts
\* every read, without them the outbound call is issued.
RecipientSettle(c, answer) ==
    /\ pc[c] = "recipient"
    /\ IsOneOff(notification[c]) => answer = Null
    /\ lookupReplies' = [lookupReplies EXCEPT
           ![c] = IF IsOneOff(notification[c]) THEN @ ELSE Append(@, answer)]
    /\ LET n == notification[c]
           r == AwaitRecipient(getRecipientEmail(n, answer))
           md == MailData(config, TemplateOf(c), r.value)
           atts == AttachmentsOf(n)
           answered == IF IsOneOff(n) THEN <<>>
                       ELSE << Ev("backend.getUserEmailFromNotification", "resolve", 0) >>
       IN  IF ~r.ok
           THEN /\ Settle(c, r.value)
                /\ Log(c, answered)
                /\ UNCHANGED << recipientEmail, mailData, readState, values,
                                prepareCalls, readCalls, sendCalls, sendKeys >>
           ELSE /\ recipientEmail' = [recipientEmail EXCEPT ![c] = r.value]
                /\ UNCHANGED outcome
                /\ IF HasAttachments(n)
                   THEN /\ prepareCalls' = [prepareCalls EXCEPT ![c] = Append(@, atts)]
                        /\ readCalls' = [readCalls EXCEPT
                               ![c] = [k \in DOMAIN ReadsStarted(atts) |->
                                          atts[ReadsStarted(atts)[k].index].file]]
                        /\ readState' = [readState EXCEPT
                               ![c] = [i \in 1..Len(atts) |->
                                          IF \E k \in DOMAIN ReadsStarted(atts) :
                                                 ReadsStarted(atts)[k].index = i
                                          THEN "pending" ELSE "unstarted"]]
                        /\ values' = [values EXCEPT
                               ![c] = [i \in 1..Len(atts) |-> Hole]]
                        /\ IF Len(atts) = 0
                           THEN \* Promise.all of no promise resolves to []
                                /\ mailData' = [mailData EXCEPT
                                                  ![c] = SetAttachments(md, <<>>)]
                                /\ IssueSend(c, SetAttachments(md, <<>>))
                                /\ Log(c, answered \o SendCalled)
                           ELSE /\ mailData' = [mailData EXCEPT ![c] = md]
                                /\ pc' = [pc EXCEPT ![c] = "reads"]
                                /\ Log(c, answered \o ReadsStarted(atts))
                                /\ UNCHANGED << sendCalls, sendKeys >>
                   ELSE /\ mailData' = [mailData EXCEPT ![c] = md]
                        /\ IssueSend(c, md)
                        /\ Log(c, answered \o SendCalled)
                        /\ UNCHANGED << prepareCalls, readCalls, readState, values >>
    /\ UNCHANGED << construction, apiKey, backend, notification, context, template,
                    renderCalls, lookupCalls, completionOrder, rejectedForBackend >>

\* The backend lookup rejected: the error propagates out of send.
LookupReject(c) ==
    /\ pc[c] = "recipient"
    /\ ~IsOneOff(notification[c])
    /\ Settle(c, LookupError)
    /\ Log(c, << Ev("backend.getUserEmailFromNotification", "reject", 0) >>)
    /\ UNCHANGED << construction, apiKey, backend, notification, context, template,
                    recipientEmail, mailData, readState, values, renderCalls,
                    lookupCalls, lookupReplies, prepareCalls, readCalls,
                    completionOrder, sendCalls, sendKeys, rejectedForBackend >>

\* The read of attachment i resolved.  While Promise.all is pending the
\* descriptor is stored; the last one resolves Promise.all and the outbound
\* call is issued.  After Promise.all has rejected the value is dropped.
ReadResolve(c, i) ==
    /\ i \in DOMAIN readState[c]
    /\ readState[c][i] = "pending"
    /\ readState' = [readState EXCEPT ![c][i] = "fulfilled"]
    /\ completionOrder' = [completionOrder EXCEPT ![c] = Append(@, i)]
    /\ LET att == notification[c].attachments[i]
           vals == PromiseAllStore(values[c], readState[c], i,
                                   AttachmentData(att, FileBytes(att.file)))
           md == SetAttachments(mailData[c], vals)
           read == << Ev("file.read", "resolve", i) >>
       IN  IF pc[c] = "reads"
           THEN /\ values' = [values EXCEPT ![c] = vals]
                /\ IF PromiseAllFulfilled([readState[c] EXCEPT ![i] = "fulfilled"])
                   THEN /\ mailData' = [mailData EXCEPT ![c] = md]
                        /\ IssueSend(c, md)
                        /\ Log(c, read \o SendCalled)
                   ELSE /\ Log(c, read)
                        /\ UNCHANGED << mailData, sendCalls, sendKeys, pc >>
           ELSE /\ Log(c, read)
                /\ UNCHANGED << values, mailData, sendCalls, sendKeys, pc >>
    /\ UNCHANGED << construction, apiKey, backend, notification, context, template,
                    recipientEmail, outcome, renderCalls, lookupCalls,
                    lookupReplies, prepareCalls, readCalls, rejectedForBackend >>

\* Mutation: a failed read is isolated (caught in the mapper); the request
\* goes out with the attachments that could be read.
ReadRejectIsolated(c, i) ==
    /\ i \in DOMAIN readState[c]
    /\ readState[c][i] = "pending"
    /\ readState' = [readState EXCEPT ![c][i] = "rejected"]
    /\ completionOrder' = [completionOrder EXCEPT ![c] = Append(@, i)]
    /\ LET kept == { j \in DOMAIN readState[c] : readState[c][j] = "fulfilled" }
           vals == SelectSeq(values[c], LAMBDA v : v # Hole)
           md == SetAttachments(mailData[c], vals)
           read == << Ev("file.read", "reject", i) >>
       IN  IF pc[c] = "reads" /\ \A j \in DOMAIN readState[c] : readState'[c][j] # "pending"
           THEN /\ mailData' = [mailData EXCEPT ![c] = md]
                /\ IssueSend(c, md)
                /\ Log(c, read \o SendCalled)
           ELSE /\ Log(c, read)
                /\ UNCHANGED << mailData, sendCalls, sendKeys, pc >>
    /\ UNCHANGED << construction, apiKey, backend, notification, context, template,
                    recipientEmail, values, outcome, renderCalls, lookupCalls,
                    lookupReplies, prepareCalls, readCalls, rejectedForBackend >>

\* The read of attachment i rejected: the first rejection rejects Promise.all
\* and send with it; the other reads stay outstanding.
ReadReject(c, i) ==
    /\ i \in DOMAIN readState[c]
    /\ readState[c][i] = "pending"
    /\ readState' = [readState EXCEPT ![c][i] = "rejected"]
    /\ completionOrder' = [completionOrder EXCEPT ![c] = Append(@, i)]
    /\ Log(c, << Ev("file.read", "reject", i) >>)
    /\ IF pc[c] = "reads"
       THEN Settle(c, ReadError(notification[c].attachments[i].file))
       ELSE UNCHANGED << pc, outcome >>
    /\ UNCHANGED << construction, apiKey, backend, notification, context, template,
                    recipientEmail, mailData, values, renderCalls, lookupCalls,
                    lookupReplies, prepareCalls, readCalls, sendCalls, sendKeys,
                    rejectedForBackend >>

\* Mutation: after the outbound call the notification is marked as sent on
\* the backend.
MailResolveMarkSent(c) ==
    /\ pc[c] = "mail"
    /\ Settle(c, Resolved)
    /\ Log(c, << Ev("sgMail.send", "resolve", 0), Ev("backend.markAsSent", "call", 0) >>)
    /\ UNCHANGED << construction, apiKey, backend, notification, context, template,
                    recipientEmail, mailData, readState, values, renderCalls,
                    lookupCalls, lookupReplies, prepareCalls, readCalls,
                    completionOrder, sendCalls, sendKeys, rejectedForBackend >>

\* sgMail.send resolved: send resolves.
MailResolve(c) ==
    /\ pc[c] = "mail"
    /\ Settle(c, Resolved)
    /\ Log(c, << Ev("sgMail.send", "resolve", 0) >>)
    /\ UNCHANGED << construction, apiKey, backend, notification, context, template,
                    recipientEmail, mailData, readState, values, renderCalls,
                    lookupCalls, lookupReplies, prepareCalls, readCalls,
                    completionOrder, sendCalls, sendKeys, rejectedForBackend >>

\* Mutation: a rejected outbound call is tried once more, and if that works
\* send resolves.
MailRejectRetry(c) ==
    /\ pc[c] = "mail"
    /\ IF Len(sendCalls[c]) = 1
       THEN /\ sendCalls' = [sendCalls EXCEPT ![c] = Append(@, mailData[c])]
            /\ sendKeys' = [sendKeys EXCEPT ![c] = Append(@, apiKey)]
            /\ Log(c, << Ev("sgMail.send", "reject", 0) >> \o SendCalled)
            /\ UNCHANGED << pc, outcome >>
       ELSE /\ Settle(c, MailError)
            /\ Log(c, << Ev("sgMail.send", "reject", 0) >>)
            /\ UNCHANGED << sendCalls, sendKeys >>
    /\ UNCHANGED << construction, apiKey, backend, notification, context, template,
                    recipientEmail, mailData, readState, values, renderCalls,
                    lookupCalls, lookupReplies, prepareCalls, readCalls,
                    completionOrder, rejectedForBackend >>

\* sgMail.send rejected: the error propagates out of send.
MailReject(c) ==
    /\ pc[c] = "mail"
    /\ Settle(c, MailError)
    /\ Log(c, << Ev("sgMail.send", "reject", 0) >>)
    /\ UNCHANGED << construction, apiKey, backend, notification, context, template,
                    recipientEmail, mailData, readState, values, renderCalls,
                    lookupCalls, lookupReplies, prepareCalls, readCalls,
                    completionOrder, sendCalls, sendKeys, rejectedForBackend >>

\* The invocations of Spec: one at a time, each awaited before the next.
SequentialCalls == { c \in Calls : \A d \in Calls : c <= d }

Next ==
    \/ injectBackend
    \/ \E c \in SequentialCalls, n \in Notifications, ctx \in Contexts :
          SendStart(c, n, ctx)
    \/ \E c \in Calls, tpl \in Templates : RenderResolve(c, tpl)
    \/ \E c \in Calls : RenderReject(c)
    \/ \E c \in Calls, answer \in UserEmails \cup {Null} : RecipientSettle(c, answer)
    \/ \E c \in Calls : LookupReject(c)
    \/ \E c \in Calls, i \in 1..MaxAttachments : ReadResolve(c, i)
    \/ \E c \in Calls, i \in 1..MaxAttachments : ReadReject(c, i)
    \/ \E c \in Calls : MailResolve(c)
    \/ \E c \in Calls : MailReject(c)

Spec == Init /\ [][Next]_vars

\* The notifications of the overlapping invocations: a one-off notification
\* and an account-bound one with an attachment.
ConcurrentNotifications ==
    { n \in Notifications :
        /\ n.id # Null
        /\ IF IsOneOff(n)
           THEN n.id = "123" /\ n.emailOrPhone # "" /\ "attachments" \notin DOMAIN n
           ELSE n.id = "456" /\ HasAttachments(n) /\ Len(n.attachments) = 1
                /\ n.attachments[1].file = "file-2" }

\* send is called while earlier invocations are still running: slot c is
\* taken once, the slots in order.
ConcurrentSendStart(c, n, ctx) ==
    /\ pc[c] = "idle"
    /\ \A d \in Calls : d < c => pc[d] # "idle"
    /\ SendStart(c, n, ctx)

\* MaxCalls invocations of send that may all be in flight at once.
NextConcurrent ==
    \/ injectBackend
    \/ \E c \in Calls, n \in ConcurrentNotifications, ctx \in Contexts :
          ConcurrentSendStart(c, n, ctx)
    \/ \E c \in Calls, tpl \in Templates : RenderResolve(c, tpl)
    \/ \E c \in Calls : RenderReject(c)
    \/ \E c \in Calls, answer \in UserEmails \cup {Null} : RecipientSettle(c, answer)
    \/ \E c \in Calls : LookupReject(c)
    \/ \E c \in Calls, i \in 1..MaxAttachments : ReadResolve(c, i)
    \/ \E c \in Calls, i \in 1..MaxAttachments : ReadReject(c, i)
    \/ \E c \in Calls : MailResolve(c)
    \/ \E c \in Calls : MailReject(c)

SpecConcurrent == Init /\ [][NextConcurrent]_vars

\* The configurations of the other adapters of the process.
OtherConfigs ==
    { [apiKey |-> k, fromEmail |-> "a@x.com", fromName |-> Null] :
        k \in {"SG.test-api-key", "SG.other-api-key"} }

\* Another SendgridNotificationAdapter is constructed, through the factory or
\* directly: its constructor sets the key of the sgMail client they all share.
ConstructAdapter(cfg) ==
    /\ apiKey' = setApiKey(cfg.apiKey)
    /\ UNCHANGED << construction, sendKeys, backend, pc, notification, context,
                    template, recipientEmail, mailData, readState, values,
                    outcome, renderCalls, lookupCalls, lookupReplies,
                    prepareCalls, readCalls, completionOrder, sendCalls,
                    events, rejectedForBackend >>

\* The adapter among other adapters of the same process: its sends, one at a
\* time, and the construction of other adapters at any moment.
NextAdapters ==
    \/ injectBackend
    \/ \E cfg \in OtherConfigs : ConstructAdapter(cfg)
    \/ \E c \in SequentialCalls, n \in ConcurrentNotifications, ctx \in Contexts :
          SendStart(c, n, ctx)
    \/ \E c \in Calls, tpl \in Templates : RenderResolve(c, tpl)
    \/ \E c \in Calls : RenderReject(c)
    \/ \E c \in Calls, answer \in UserEmails \cup {Null} : RecipientSettle(c, answer)
    \/ \E c \in Calls : LookupReject(c)
    \/ \E c \in Calls, i \in 1..MaxAttachments : ReadResolve(c, i)
    \/ \E c \in Calls, i \in 1..MaxAttachments : ReadReject(c, i)
    \/ \E c \in Calls : MailResolve(c)
    \/ \E c \in Calls : MailReject(c)

SpecAdapters == Init /\ [][NextAdapters]_vars

\* ------------------------------------------------------------------ claims

\* The index (0..63) of a base64 character.
Base64Index(ch) == (CHOOSE k \in 1..64 : Base64Alphabet[k] = ch) - 1

RECURSIVE Base64Decode(_)
\* The bytes a padded base64 text stands for.
Base64Decode(text) ==
    IF Len(text) < 4 THEN <<>>
    ELSE LET a == Base64Index(text[1])
             b == Base64Index(text[2])
         IN  IF text[3] = "="
             THEN << a * 4 + b \div 16 >>
             ELSE IF text[4] = "="
             THEN << a * 4 + b \div 16,
                     (b % 16) * 16 + Base64Index(text[3]) \div 4 >>
             ELSE << a * 4 + b \div 16,
                     (b % 16) * 16 + Base64Index(text[3]) \div 4,
                     (Base64Index(text[3]) % 4) * 64 + Base64Index(text[4]) >>
                  \o Base64Decode(SubSeq(text, 5, Len(text)))

\* text is the padded base64 encoding of bytes.
IsBase64Of(text, bytes) ==
    /\ Len(text) = 4 * ((Len(bytes) + 2) \div 3)
    /\ Base64Decode(text) = bytes

\* Element el of a request's attachments is the wire form of attachment att.
IsWireFormOf(el, att) ==
    /\ el.filename = att.filename
    /\ el.type = att.contentType
    /\ el.disposition = "attachment"
    /\ IsBase64Of(el.content, FileBytes(att.file))

\* The invocation in slot c issued an outbound call.
Delivered(c) == sendCalls[c] # <<>>

\* C1: while no backend has been injected, every send (account-bound or
\* one-off) has failed with 'Backend not injected' and issued no outbound call.
C1_BackendNotInjected ==
    backend = Null =>
        \A c \in Calls :
            pc[c] # "idle" =>
                /\ pc[c] = "returned"
                /\ outcome[c] = "Backend not injected"
                /\ sendCalls[c] = <<>>

\* A one-off notification with an id was sent before any backend was injected.
C1_Witness ==
    /\ backend = Null
    /\ \E c \in Calls :
          /\ pc[c] = "returned"
          /\ IsOneOff(notification[c])
          /\ notification[c].id \in Ids

\* C2: a send of a notification without id that passed the backend check has
\* failed with 'Notification ID is required' and issued no outbound call,
\* whatever the renderer and the backend did.
C2_IdRequired ==
    \A c \in Calls :
        ( /\ pc[c] = "returned"
          /\ outcome[c] # "Backend not injected"
          /\ notification[c].id = Null )
        => /\ outcome[c] = "Notification ID is required"
           /\ sendCalls[c] = <<>>

\* C3: a send that fails one of the two preconditions (backend injected,
\* notification.id present) never invoked the template renderer.
C3_PreconditionsBeforeRender ==
    \A c \in Calls :
        outcome[c] \in {"Backend not injected", "Notification ID is required"}
        => renderCalls[c] = <<>>

\* C4: a send of a one-off notification never invokes the backend's recipient
\* lookup, and every outbound request it issues is addressed to the
\* notification's emailOrPhone.
C4_OneOffNoLookup ==
    \A c \in Calls :
        IsOneOff(notification[c]) =>
            /\ lookupCalls[c] = <<>>
            /\ \A k \in DOMAIN sendCalls[c] :
                  sendCalls[c][k].to = notification[c].emailOrPhone

\* A one-off notification was delivered.
C4_Witness ==
    \E c \in Calls :
        /\ IsOneOff(notification[c])
        /\ notification[c].emailOrPhone = "c@z.com"
        /\ Delivered(c)
        /\ outcome[c] = Resolved

\* C5: when the recipient lookup of an account-bound notification with an id
\* returned no value, send has failed with 'User email not found for
\* notification <id>' and issued no outbound call.
C5_EmailNotFound ==
    \A c \in Calls :
        ( /\ ~IsOneOff(notification[c])
          /\ lookupReplies[c] = <<Null>> )
        => /\ pc[c] = "returned"
           /\ outcome[c] = "User email not found for notification " \o notification[c].id
           /\ sendCalls[c] = <<>>

\* The lookup of an account-bound notification returned no value.
C5_Witness ==
    \E c \in Calls :
        /\ notification[c].id = "456"
        /\ ~IsOneOff(notification[c])
        /\ lookupReplies[c] = <<Null>>
        /\ outcome[c] = "User email not found for notification 456"

\* C6: a delivered account-bound notification had its recipient looked up
\* exactly once, by the notification's id, and the outbound request is
\* addressed to what the lookup returned.
C6_AccountLookupById ==
    \A c \in Calls :
        ( /\ pc[c] # "idle"
          /\ ~IsOneOff(notification[c])
          /\ Delivered(c) )
        => /\ lookupCalls[c] = << notification[c].id >>
           /\ Len(lookupReplies[c]) = 1
           /\ \A k \in DOMAIN sendCalls[c] :
                 sendCalls[c][k].to = lookupReplies[c][1]

\* An account-bound notification was delivered.
C6_Witness ==
    \E c \in Calls :
        /\ pc[c] = "returned"
        /\ ~IsOneOff(notification[c])
        /\ notification[c].id # UserId
        /\ Delivered(c)
        /\ outcome[c] = Resolved

\* C7: for a notification whose attachments are empty or absent,
\* prepareAttachments is not invoked and no outbound request has an
\* attachments field.
C7_NoAttachmentsField ==
    \A c \in Calls :
        ( \/ "attachments" \notin DOMAIN notification[c]
          \/ notification[c].attachments = <<>> )
        => /\ prepareCalls[c] = <<>>
           /\ readCalls[c] = <<>>
           /\ \A k \in DOMAIN sendCalls[c] :
                 "attachments" \notin DOMAIN sendCalls[c][k]

\* A notification with an empty attachments array was delivered.
C7_Witness ==
    \E c \in Calls :
        /\ "attachments" \in DOMAIN notification[c]
        /\ notification[c].attachments = <<>>
        /\ Delivered(c)

\* C8: the outbound request of a notification with N >= 1 attachments has an
\* attachments array of length N whose element i has the base64 encoding of
\* the bytes of attachment i as content, its filename, its contentType as
\* type, and disposition 'attachment'.
C8_AttachmentsTranslated ==
    \A c \in Calls :
        \A k \in DOMAIN sendCalls[c] :
            LET atts == AttachmentsOf(notification[c])
                md == sendCalls[c][k]
            IN  Len(atts) >= 1 =>
                    /\ "attachments" \in DOMAIN md
                    /\ Len(md.attachments) = Len(atts)
                    /\ \A i \in 1..Len(atts) :
                          IsWireFormOf(md.attachments[i], atts[i])

\* A notification with two different attachments was delivered.
C8_Witness ==
    \E c \in Calls :
        /\ Len(AttachmentsOf(notification[c])) = MaxAttachments
        /\ notification[c].attachments[1].file = "file-2"
        /\ notification[c].attachments[2].file = "file-1"
        /\ Delivered(c)
        /\ outcome[c] = Resolved

\* C9: in whatever order the reads complete, slot i of the translator's
\* result, and with it element i of the outbound request's attachments,
\* comes from attachment i of the notification.
C9_OrderPreserved ==
    \A c \in Calls :
        /\ \A i \in DOMAIN values[c] :
              values[c][i] # Hole =>
                  values[c][i].filename = notification[c].attachments[i].filename
        /\ \A k \in DOMAIN sendCalls[c] :
              "attachments" \in DOMAIN sendCalls[c][k] =>
                  \A i \in DOMAIN sendCalls[c][k].attachments :
                      /\ i \in DOMAIN AttachmentsOf(notification[c])
                      /\ sendCalls[c][k].attachments[i].filename
                            = notification[c].attachments[i].filename
                      /\ Base64Decode(sendCalls[c][k].attachments[i].content)
                            = FileBytes(notification[c].attachments[i].file)

\* The reads completed in the reverse of the attachments' order, and the
\* request went out.
C9_Witness ==
    \E c \in Calls :
        /\ Len(AttachmentsOf(notification[c])) >= 2
        /\ notification[c].attachments[1] # notification[c].attachments[2]
        /\ completionOrder[c] = << 2, 1 >>
        /\ Delivered(c)

\* The attachment whose read was the first to reject.
FirstRejected(c) ==
    LET ks == { k \in DOMAIN completionOrder[c] :
                   readState[c][completionOrder[c][k]] = "rejected" }
    IN  completionOrder[c][CHOOSE k \in ks : \A m \in ks : k <= m]

\* C10: once the read of an attachment has failed, send has failed with a
\* failed read's error (the first to fail) and no outbound call was issued,
\* also when the other reads succeed.
C10_ReadFailureAborts ==
    \A c \in Calls :
        (\E i \in DOMAIN readState[c] : readState[c][i] = "rejected")
        => /\ pc[c] = "returned"
           /\ outcome[c] = ReadError(notification[c].attachments[FirstRejected(c)].file)
           /\ sendCalls[c] = <<>>

\* One read failed after the other had succeeded.
C10_Witness ==
    \E c \in Calls :
        /\ readState[c] = << "fulfilled", "rejected" >>
        /\ completionOrder[c] = << 1, 2 >>
        /\ notification[c].attachments[1] # notification[c].attachments[2]
        /\ pc[c] = "returned"


\* Operation op of invocation c was called (ev = "call"), or it resolved or
\* rejected, for attachment index (0 when op is not a read).
Happened(c, op, ev, index) ==
    \E k \in DOMAIN events[c] : events[c][k] = Ev(op, ev, index)

\* How often.
Count(c, op, ev, index) ==
    Cardinality({ k \in DOMAIN events[c] : events[c][k] = Ev(op, ev, index) })

\* C11: the outbound request's from is the pair {email: fromEmail, name:
\* fromName} when a fromName is configured, and the bare fromEmail string
\* when fromName is absent.
C11_SenderField ==
    \A c \in Calls : \A k \in DOMAIN sendCalls[c] :
        IF config.fromName = Null
        THEN sendCalls[c][k].from = config.fromEmail
        ELSE sendCalls[c][k].from =
                 [email |-> config.fromEmail, name |-> config.fromName]

\* A request with the sender pair went out and send resolved.
C11_Witness ==
    \E c \in Calls :
        /\ config.fromName = "App"
        /\ outcome[c] = Resolved
        /\ Delivered(c)
        /\ sendCalls[c][1].from = [email |-> "a@x.com", name |-> "App"]

\* Render, the id check, the recipient resolution and every attachment read
\* of invocation c succeeded (the backend check did, or render had not been
\* called).
AllSucceeded(c) ==
    /\ Happened(c, "templateRenderer.render", "resolve", 0)
    /\ ~IdMissing(notification[c])
    /\ mailData[c] # NoMailData
    /\ \A i \in DOMAIN AttachmentsOf(notification[c]) :
           Happened(c, "file.read", "resolve", i)

\* C12: every send invocation issues at most one outbound send call: exactly
\* one when both preconditions hold and the render, the recipient resolution
\* and every attachment read succeed, and none when any of them fails.
C12_AtMostOneSend ==
    \A c \in Calls :
        /\ Len(sendCalls[c]) <= 1
        /\ AllSucceeded(c) <=> Len(sendCalls[c]) = 1
        /\ Count(c, "sgMail.send", "call", 0) = Len(sendCalls[c])

\* A send with attachments resolved, with its one outbound call.
C12_Witness ==
    \E c \in Calls :
        /\ outcome[c] = Resolved
        /\ HasAttachments(notification[c])
        /\ Len(sendCalls[c]) = 1

\* C13: an error raised by the template renderer or by the outbound send call
\* is the error send fails with, unchanged; send never retries the failed call
\* and never completes successfully after such an error.
C13_ErrorsPropagate ==
    \A c \in Calls :
        /\ Happened(c, "templateRenderer.render", "reject", 0) =>
               /\ pc[c] = "returned"
               /\ outcome[c] = RenderError
               /\ Count(c, "templateRenderer.render", "call", 0) = 1
               /\ sendCalls[c] = <<>>
        /\ Happened(c, "sgMail.send", "reject", 0) =>
               /\ pc[c] = "returned"
               /\ outcome[c] = MailError
               /\ Count(c, "sgMail.send", "call", 0) = 1
               /\ Len(sendCalls[c]) = 1

\* The outbound call rejected and send failed with its error.
C13_Witness ==
    \E c \in Calls :
        /\ Happened(c, "sgMail.send", "reject", 0)
        /\ outcome[c] = MailError

\* C14: the outbound request of a successful send has exactly the fields to,
\* from, subject and html, plus attachments only when the notification has at
\* least one attachment; subject and html are the rendered template's subject
\* and body; the renderer is invoked with the notification and context that
\* were passed to send.
C14_RequestShape ==
    \A c \in Calls :
        (pc[c] = "returned" /\ outcome[c] = Resolved) =>
            /\ Len(sendCalls[c]) = 1
            /\ DOMAIN sendCalls[c][1] =
                   {"to", "from", "subject", "html"}
                   \cup (IF Len(AttachmentsOf(notification[c])) >= 1
                         THEN {"attachments"} ELSE {})
            /\ sendCalls[c][1].subject = template[c].subject
            /\ sendCalls[c][1].html = template[c].body
            /\ template[c] \in Templates
            /\ renderCalls[c] =
                   << [notification |-> notification[c], context |-> context[c]] >>

\* A send with context ctxB and the second template resolved, without
\* attachments.
C14_Witness ==
    \E c \in Calls :
        /\ outcome[c] = Resolved
        /\ context[c] = "ctxB"
        /\ ~HasAttachments(notification[c])
        /\ sendCalls[c][1].subject = "S2"
        /\ sendCalls[c][1].html = "<p>B2</p>"


\* The request invocation c has to issue, from what belongs to c alone: its
\* notification, the template rendered for it, the address looked up for it
\* and the bytes of its attachments, and the adapter's configuration.
OwnRequest(c) ==
    LET n == notification[c]
        to == IF IsOneOff(n) THEN n.emailOrPhone ELSE lookupReplies[c][1]
        md == MailData(config, template[c], to)
    IN  IF HasAttachments(n)
        THEN SetAttachments(md, [i \in DOMAIN n.attachments |->
                 AttachmentData(n.attachments[i], FileBytes(n.attachments[i].file))])
        ELSE md

\* The outcome of invocation c, from the collaborators' responses to c alone
\* (no event: the backend check failed).
OwnOutcome(c) ==
    IF events[c] = <<>> THEN "Backend not injected"
    ELSE IF Happened(c, "templateRenderer.render", "reject", 0) THEN RenderError
    ELSE IF IdMissing(notification[c]) THEN "Notification ID is required"
    ELSE IF Happened(c, "backend.getUserEmailFromNotification", "reject", 0)
         THEN LookupError
    ELSE IF lookupReplies[c] = << Null >>
         THEN "User email not found for notification " \o notification[c].id
    ELSE IF \E i \in DOMAIN readState[c] : readState[c][i] = "rejected"
         THEN ReadError(notification[c].attachments[FirstRejected(c)].file)
    ELSE IF Happened(c, "sgMail.send", "reject", 0) THEN MailError
    ELSE Resolved

\* C15: the outcome of a send (its outbound request or its error) depends only
\* on that call's notification and context, the adapter's configuration and
\* the collaborators' responses to that call, whatever other sends are running
\* concurrently: no data of one send appears in another's request, and sending
\* the same notification twice issues two identical requests.
C15_Independent ==
    \A c \in Calls :
        /\ Delivered(c) => sendCalls[c] = << OwnRequest(c) >>
        /\ pc[c] = "returned" => outcome[c] = OwnOutcome(c)
        /\ \A d \in Calls :
               ( /\ Delivered(c) /\ Delivered(d)
                 /\ notification[c] = notification[d]
                 /\ template[c] = template[d]
                 /\ lookupReplies[c] = lookupReplies[d] )
               => sendCalls[c] = sendCalls[d]

\* Two sends of different notifications, rendered to different templates,
\* have their outbound calls in flight at the same time.
C15_Witness ==
    \E c, d \in Calls :
        /\ c # d
        /\ pc[c] = "mail" /\ pc[d] = "mail"
        /\ IsOneOff(notification[c]) /\ ~IsOneOff(notification[d])
        /\ template[c] # template[d]
        /\ sendCalls[c][1].to # sendCalls[d][1].to

\* C16: in every reachable state of an adapter created by the factory, after
\* any sequence of injectBackend and send operations, key is 'sendgrid',
\* notificationType is 'EMAIL', supportsAttachments is true and
\* enqueueNotifications is the value passed to create.
C16_Properties ==
    /\ adapter.key = "sendgrid"
    /\ adapter.notificationType = "EMAIL"
    /\ supportsAttachments = TRUE
    /\ adapter.enqueueNotifications = createArgs.enqueueNotifications

\* An adapter created with enqueueNotifications = true, after a failed send,
\* injectBackend and a successful send.
C16_Witness ==
    /\ createArgs.enqueueNotifications = TRUE
    /\ adapter.enqueueNotifications = TRUE
    /\ rejectedForBackend
    /\ backend # Null
    /\ \E c \in Calls : outcome[c] = Resolved


\* The operations invocation c called that have neither resolved nor rejected.
Outstanding(c) ==
    { k \in DOMAIN events[c] :
        /\ events[c][k].ev = "call"
        /\ ~\E j \in DOMAIN events[c] :
               /\ j > k
               /\ events[c][j].op = events[c][k].op
               /\ events[c][j].index = events[c][k].index
               /\ events[c][j].ev \in {"resolve", "reject"} }

\* C17: when a send call returns, successfully or with an error, every
\* operation it started (template render, recipient lookup, each attachment
\* read, the outbound call) has completed: no attachment read started by the
\* call is still outstanding after the call has returned.
C17_AllCompleted ==
    \A c \in Calls :
        pc[c] = "returned" =>
            /\ Outstanding(c) = {}
            /\ \A i \in DOMAIN readState[c] : readState[c][i] # "pending"

\* The first event of invocation c that is Ev(op, ev, index); 0 when there is none.
First(c, op, ev, index) ==
    LET ks == { k \in DOMAIN events[c] : events[c][k] = Ev(op, ev, index) }
    IN  IF ks = {} THEN 0 ELSE CHOOSE k \in ks : \A m \in ks : k <= m

\* Event e1 of invocation c happened, and before position k.
Before(c, op, ev, index, k) ==
    /\ First(c, op, ev, index) > 0
    /\ First(c, op, ev, index) < k

\* The recipient resolution of invocation c completed before position k (for
\* a one-off notification it involves no collaborator).
RecipientBefore(c, k) ==
    \/ IsOneOff(notification[c])
    \/ Before(c, "backend.getUserEmailFromNotification", "resolve", 0, k)

\* C18: within one send the render completes, then the recipient resolution
\* completes, then all attachment reads are started together (every read is
\* issued before any of them is awaited, so all can be outstanding at once),
\* and the outbound call is issued only after every attachment read has
\* completed successfully.
C18_StepOrder ==
    \A c \in Calls : \A k \in DOMAIN events[c] :
        LET e == events[c][k]
            reads == DOMAIN AttachmentsOf(notification[c])
        IN  /\ (e.op = "backend.getUserEmailFromNotification" /\ e.ev = "call") =>
                   Before(c, "templateRenderer.render", "resolve", 0, k)
            /\ (e.op = "file.read" /\ e.ev = "call") =>
                   /\ Before(c, "templateRenderer.render", "resolve", 0, k)
                   /\ RecipientBefore(c, k)
                   /\ \A i \in reads :
                          /\ Happened(c, "file.read", "call", i)
                          /\ ~Before(c, "file.read", "resolve", i, k)
                          /\ ~Before(c, "file.read", "reject", i, k)
            /\ (e.op = "sgMail.send" /\ e.ev = "call") =>
                   /\ Before(c, "templateRenderer.render", "resolve", 0, k)
                   /\ RecipientBefore(c, k)
                   /\ \A i \in reads : Before(c, "file.read", "resolve", i, k)

\* Two reads are outstanding at once, after render and the lookup completed;
\* no outbound call yet.
C18_Witness ==
    \E c \in Calls :
        /\ pc[c] = "reads"
        /\ readState[c] = << "pending", "pending" >>
        /\ ~IsOneOff(notification[c])
        /\ Cardinality(Outstanding(c)) = 2
        /\ sendCalls[c] = <<>>

\* The step is a call of send in slot c.
StartsSend(c) ==
    /\ pc[c] \in {"idle", "returned"}
    /\ pc'[c] \in {"render", "returned"}
    /\ backend' = backend
    /\ Len(events'[c]) <= 1

\* C19: for any sequence of injectBackend and send operations on one adapter,
\* a send fails with 'Backend not injected' exactly when no injectBackend
\* preceded it; the failure is not sticky: after a failed send, once a backend
\* is injected, later sends pass the backend check.
C19_BackendCheckNotSticky ==
    [][ \A c \in Calls :
          StartsSend(c) =>
              /\ (outcome'[c] = "Backend not injected") <=> (backend = Null)
              /\ (pc'[c] = "returned") <=> (backend = Null)
              /\ rejectedForBackend' = (rejectedForBackend \/ backend = Null) ]_vars

\* A send failed for the missing backend, a backend was injected, and a later
\* send passed the check and resolved.
C19_Witness ==
    /\ rejectedForBackend
    /\ backend # Null
    /\ \E c \in Calls :
           /\ outcome[c] = Resolved
           /\ Happened(c, "templateRenderer.render", "call", 0)

\* The collaborator operations send may invoke.
AllowedOperations ==
    { "templateRenderer.render", "backend.getUserEmailFromNotification",
      "file.read", "sgMail.send" }

\* What invocation c has invoked so far is within the frame.
WithinFrame(c) ==
    /\ \A k \in DOMAIN events[c] :
           /\ events[c][k].op \in AllowedOperations
           /\ events[c][k].op = "backend.getUserEmailFromNotification" =>
                  ~IsOneOff(notification[c])
           /\ events[c][k].op = "file.read" =>
                  events[c][k].index \in DOMAIN AttachmentsOf(notification[c])
           /\ events[c][k].op # "file.read" => events[c][k].index = 0
    /\ Count(c, "templateRenderer.render", "call", 0) <= 1
    /\ Count(c, "backend.getUserEmailFromNotification", "call", 0) <= 1
    /\ Count(c, "sgMail.send", "call", 0) <= 1
    /\ \A i \in DOMAIN AttachmentsOf(notification[c]) :
           /\ Count(c, "file.read", "call", i) <= 1
           /\ Delivered(c) => Count(c, "file.read", "call", i) = 1

\* C20: send leaves the notification, its attachments and the adapter's
\* configuration unchanged, and the only collaborator operations it invokes
\* are the template render, the backend's recipient lookup (account-bound
\* notifications only), read once per attachment, and the outbound send call.
C20_Frame ==
    /\ [](\A c \in Calls : WithinFrame(c))
    /\ [][ /\ config' = config
           /\ \A c \in Calls :
                  pc[c] \notin {"idle", "returned"} =>
                      /\ notification'[c] = notification[c]
                      /\ context'[c] = context[c] ]_vars

\* An account-bound notification with two attachments was sent: one render,
\* one lookup, one read per attachment, one outbound call.
C20_Witness ==
    \E c \in Calls :
        /\ outcome[c] = Resolved
        /\ ~IsOneOff(notification[c])
        /\ Len(AttachmentsOf(notification[c])) = 2
        /\ Len(events[c]) = 10


\* Invocation c sends a one-off notification that has an id and the empty
\* string as its address.
EmptyAddress(c) ==
    /\ IsOneOff(notification[c])
    /\ ~IdMissing(notification[c])
    /\ notification[c].emailOrPhone = ""

\* C21: a one-off notification with an id whose emailOrPhone is the empty
\* string is not rejected: send performs no validation of the address and
\* issues the outbound send call with to equal to the empty string.
C21_EmptyAddressPassedThrough ==
    \A c \in Calls :
        ( /\ EmptyAddress(c)
          /\ Happened(c, "templateRenderer.render", "resolve", 0)
          /\ pc[c] # "recipient"
          /\ \A i \in DOMAIN readState[c] : readState[c][i] = "fulfilled" )
        => /\ Len(sendCalls[c]) = 1
           /\ sendCalls[c][1].to = ""
           /\ outcome[c] \in {Null, Resolved, MailError}
           /\ lookupCalls[c] = <<>>

\* A one-off notification with the empty address was sent, and send resolved.
C21_Witness ==
    \E c \in Calls :
        /\ EmptyAddress(c)
        /\ outcome[c] = Resolved
        /\ sendCalls[c][1].to = ""
        /\ recipientEmail[c] = ""


\* C22: every outbound send call issued by an adapter is authenticated with
\* the apiKey that adapter was constructed with, also when other adapters with
\* different apiKeys have been constructed between that adapter's construction
\* and the call; send itself never sets the API key.
C22_OwnApiKey ==
    \A c \in Calls : \A k \in DOMAIN sendKeys[c] :
        sendKeys[c][k] = config.apiKey

====
